---- MODULE Spec2Model ----
(***************************************************************************)
(* A model of coordinax's vector records: AbstractVectorBase and its       *)
(* array-collection operations (_base.py), AbstractVectorDifferential and  *)
(* AdditionMixin (_base_dif.py).                                           *)
(*                                                                         *)
(* An instance is an immutable record of named components; each component  *)
(* is a Quantity: an array (shape + C-ordered data) with a unit.  Objects  *)
(* live in a heap that only grows: an operation reads its operands from    *)
(* the heap and, when it succeeds, allocates its result.                   *)
(***************************************************************************)
EXTENDS Integers, Sequences, FiniteSets, TLC

\* ---- bounds of the model
MaxObjs == 3     \* objects the heap may hold
MaxAxis == 2     \* largest axis length of an input array

\* =========================================================================
\* Exact numbers: a value is a normalised fraction <<n, d>>, d > 0.

Abs(n) == IF n < 0 THEN -n ELSE n
Max(a, b) == IF a >= b THEN a ELSE b

RECURSIVE GCD(_, _)
GCD(a, b) == IF b = 0 THEN a ELSE GCD(b, a % b)

Rat(n, d) ==
  LET g == GCD(Abs(n), Abs(d))
      s == IF d < 0 THEN -1 ELSE 1
  IN  <<(s * n) \div g, (s * d) \div g>>
RatInt(n) == <<n, 1>>
RatAdd(a, b) == Rat(a[1] * b[2] + b[1] * a[2], a[2] * b[2])
RatNeg(a) == <<-a[1], a[2]>>
RatSub(a, b) == RatAdd(a, RatNeg(b))
RatMul(a, b) ==
  LET g1 == GCD(Abs(a[1]), b[2])
      g2 == GCD(Abs(b[1]), a[2])
  IN  Rat((a[1] \div g1) * (b[1] \div g2), (a[2] \div g2) * (b[2] \div g1))

\* =========================================================================
\* Units (the Quantity adapter's unit): the exponents of length, angle and
\* time, which are the physical type, and the scale to the base unit.

Unit(l, a, t, scale) == [dim |-> <<l, a, t>>, scale |-> scale]
u_m == Unit(1, 0, 0, 1)
u_km == Unit(1, 0, 0, 1000)
u_deg == Unit(0, 1, 0, 60)
u_s == Unit(0, 0, 1, 1)
u_m_s == Unit(1, 0, -1, 1)
u_km_s == Unit(1, 0, -1, 1000)
u_deg_s == Unit(0, 1, -1, 60)

physical_type(u) == u.dim
UnitMul(u, w) ==
  [dim |-> [i \in 1..3 |-> u.dim[i] + w.dim[i]], scale |-> u.scale * w.scale]

\* =========================================================================
\* Arrays: shape is a sequence of axis lengths, data the elements in C order.

RECURSIVE Prod(_)
Prod(s) == IF s = <<>> THEN 1 ELSE Head(s) * Prod(Tail(s))

\* s padded on the left with 1s to rank n
Pad(s, n) == [i \in 1..n |-> IF i <= n - Len(s) THEN 1 ELSE s[i - (n - Len(s))]]

\* on every axis the lengths agree, or one of them is 1
CanBroadcast2(s, t) ==
  LET n == Max(Len(s), Len(t))
  IN  \A i \in 1..n : Cardinality({Pad(s, n)[i], Pad(t, n)[i]} \ {1}) <= 1
Broadcast2(s, t) ==
  LET n == Max(Len(s), Len(t))
  IN  [i \in 1..n |-> IF Pad(s, n)[i] = 1 THEN Pad(t, n)[i] ELSE Pad(s, n)[i]]

RECURSIVE broadcast_shapes(_)
broadcast_shapes(ss) ==
  IF ss = <<>> THEN <<>>
  ELSE IF Len(ss) = 1 THEN ss[1]
  ELSE Broadcast2(ss[1], broadcast_shapes(Tail(ss)))

RECURSIVE Broadcastable(_)
Broadcastable(ss) ==
  IF Len(ss) <= 1 THEN TRUE
  ELSE IF Broadcastable(Tail(ss))
       THEN CanBroadcast2(ss[1], broadcast_shapes(Tail(ss)))
       ELSE FALSE

\* flat offset k (from 0) <-> the axis indices (each from 0) of shape s
RECURSIVE Unravel(_, _)
Unravel(k, s) ==
  IF s = <<>> THEN <<>>
  ELSE LET n == Len(s)
       IN  Append(Unravel(k \div s[n], SubSeq(s, 1, n - 1)), k % s[n])

RECURSIVE Ravel(_, _)
Ravel(idx, s) ==
  IF s = <<>> THEN 0
  ELSE LET n == Len(s)
       IN  Ravel(SubSeq(idx, 1, n - 1), SubSeq(s, 1, n - 1)) * s[n] + idx[n]

\* the offset in a (of shape s) of the element shown at offset k of its
\* broadcast to shape
BroadcastSource(s, shape, k) ==
  LET n == Len(shape)
      m == Len(s)
      idx == Unravel(k, shape)
  IN  Ravel([j \in 1..m |-> IF s[j] = 1 THEN 0 ELSE idx[j + n - m]], s)
broadcast_to(a, shape) ==
  [a EXCEPT !.shape = shape,
            !.data = [k \in 1..Prod(shape) |->
                        a.data[BroadcastSource(a.shape, shape, k - 1) + 1]]]

\* axes (from 0) is a permutation of the n axes
IsPermutation(axes, n) ==
  /\ Len(axes) = n
  /\ \A j \in 0..(n - 1) : \E i \in 1..n : axes[i] = j
transpose(a, axes) ==
  LET n == Len(axes)
      shp == [i \in 1..n |-> a.shape[axes[i] + 1]]
      inv(j) == CHOOSE i \in 1..n : axes[i] + 1 = j
      src(k) ==
        LET idx == Unravel(k, shp)
        IN  Ravel([j \in 1..n |-> idx[inv(j)]], a.shape)
  IN  [a EXCEPT !.shape = shp,
                !.data = [k \in 1..Prod(shp) |-> a.data[src(k - 1) + 1]]]

ndim(a) == Len(a.shape)
\* Quantity.T: all axes reversed
ArrT(a) == transpose(a, [i \in 1..ndim(a) |-> ndim(a) - i])
\* Quantity.mT: the last two axes exchanged; needs two axes
CanArrMT(a) == ndim(a) >= 2
ArrMT(a) ==
  LET n == ndim(a)
  IN  transpose(a, [i \in 1..n |-> IF i = n - 1 THEN n - 1
                                   ELSE IF i = n THEN n - 2 ELSE i - 1])
\* Quantity.flatten()
ArrFlatten(a) == [a EXCEPT !.shape = <<Prod(a.shape)>>]
\* Quantity.reshape(*shape): the element count must agree
CanArrReshape(a, shape) == Prod(shape) = Prod(a.shape)
ArrReshape(a, shape) == [a EXCEPT !.shape = shape]
\* Quantity[i], i an integer: element i of the leading axis
CanArrIndex(a, i) == ndim(a) >= 1 /\ 0 <= i /\ i < a.shape[1]
ArrIndex(a, i) ==
  LET sub == Tail(a.shape)
      sz == Prod(sub)
  IN  [a EXCEPT !.shape = sub, !.data = SubSeq(a.data, i * sz + 1, (i + 1) * sz)]
\* Quantity[..., i]: element i of the trailing axis
ArrTakeLast(a, i) ==
  LET front == SubSeq(a.shape, 1, ndim(a) - 1)
  IN  [a EXCEPT !.shape = front,
                !.data = [k \in 1..Prod(front) |->
                            a.data[Ravel(Append(Unravel(k - 1, front), i), a.shape) + 1]]]
\* -Quantity
ArrNeg(a) == [a EXCEPT !.data = [k \in 1..Len(a.data) |-> RatNeg(a.data[k])]]

\* Quantity.to_units(u): the same magnitude in unit u; the physical types
\* must agree
CanConvert(a, u) == physical_type(a.unit) = physical_type(u)
to_units_q(a, u) ==
  [a EXCEPT !.unit = u,
            !.data = [k \in 1..Len(a.data) |->
                        RatMul(a.data[k], Rat(a.unit.scale, u.scale))]]

\* Quantity (op) Quantity, elementwise over the broadcast shape; the result
\* carries unit u and its element at offset k is f(k), given below
CanArrBinary(a, b) == CanBroadcast2(a.shape, b.shape)
Elem(a, shape, k) == a.data[BroadcastSource(a.shape, shape, k - 1) + 1]
\* a + b, a - b: b is first converted to the unit of a
ArrAdd(a, b) ==
  LET shp == Broadcast2(a.shape, b.shape)
      bb == to_units_q(b, a.unit)
  IN  [shape |-> shp, unit |-> a.unit,
       data |-> [k \in 1..Prod(shp) |-> RatAdd(Elem(a, shp, k), Elem(bb, shp, k))]]
ArrSub(a, b) ==
  LET shp == Broadcast2(a.shape, b.shape)
      bb == to_units_q(b, a.unit)
  IN  [shape |-> shp, unit |-> a.unit,
       data |-> [k \in 1..Prod(shp) |-> RatSub(Elem(a, shp, k), Elem(bb, shp, k))]]
\* a * b: the units multiply
ArrMul(a, b) ==
  LET shp == Broadcast2(a.shape, b.shape)
  IN  [shape |-> shp, unit |-> UnitMul(a.unit, b.unit),
       data |-> [k \in 1..Prod(shp) |-> RatMul(Elem(a, shp, k), Elem(b, shp, k))]]

\* An array of shape s holding first, first + 1, ... in unit u
Arange(s, first, u) ==
  [shape |-> s, data |-> [k \in 1..Prod(s) |-> RatInt(first + k - 1)], unit |-> u]

\* =========================================================================
\* Classes.  A component name is a sequence of characters, so that Python's
\* string slicing can be applied to it.

n_x == <<"x">>
n_y == <<"y">>
n_r == <<"r">>
n_phi == <<"p", "h", "i">>
n_d_x == <<"d", "_", "x">>
n_d_y == <<"d", "_", "y">>
n_d_r == <<"d", "_", "r">>
n_d_phi == <<"d", "_", "p", "h", "i">>
n_q == <<"q">>
n_d_q == <<"d", "_", "q">>

\* The concrete classes (coordinax's builtin modules) and one subclass a
\* client defines without adding a field.
Classes ==
  {"Cartesian1DVector", "RadialVector", "Cartesian2DVector", "PolarVector",
   "CartesianDifferential1D", "RadialDifferential",
   "CartesianDifferential2D", "PolarDifferential", "MyCartesianDifferential2D"}
\* further subclasses a client may define, none adding a field: of a
\* position class, and of a client's own differential class
ClientClasses ==
  {"MyCartesianDifferential2D", "MyOtherDifferential2D", "MyCartesian2DVector"}

\* dataclasses.fields(cls), as names in declared order
fields(cls) ==
  CASE cls = "Cartesian1DVector" -> <<n_x>>
    [] cls = "RadialVector" -> <<n_r>>
    [] cls = "Cartesian2DVector" -> <<n_x, n_y>>
    [] cls = "PolarVector" -> <<n_r, n_phi>>
    [] cls = "CartesianDifferential1D" -> <<n_d_x>>
    [] cls = "RadialDifferential" -> <<n_d_r>>
    [] cls = "CartesianDifferential2D" -> <<n_d_x, n_d_y>>
    [] cls = "PolarDifferential" -> <<n_d_r, n_d_phi>>
    [] cls = "MyCartesianDifferential2D" -> <<n_d_x, n_d_y>>
    [] cls = "MyOtherDifferential2D" -> <<n_d_x, n_d_y>>
    [] cls = "MyCartesian2DVector" -> <<n_x, n_y>>
    [] cls = "CartesianNDVector" -> <<n_q>>
    [] cls = "CartesianDifferentialND" -> <<n_d_q>>

\* the class a class is derived from ("" above the concrete classes)
Base(cls) ==
  CASE cls = "MyCartesianDifferential2D" -> "CartesianDifferential2D"
    [] cls = "MyOtherDifferential2D" -> "MyCartesianDifferential2D"
    [] cls = "MyCartesian2DVector" -> "Cartesian2DVector"
    [] OTHER -> ""
RECURSIVE issubclass(_, _)
\* issubclass(c, d)
issubclass(c, d) ==
  IF c = d THEN TRUE ELSE IF Base(c) = "" THEN FALSE ELSE issubclass(Base(c), d)

\* cls._cartesian_cls
cartesian_cls(cls) ==
  CASE cls \in {"Cartesian1DVector", "RadialVector"} -> "Cartesian1DVector"
    [] cls \in {"Cartesian2DVector", "PolarVector"} -> "Cartesian2DVector"
    [] cls \in {"CartesianDifferential1D", "RadialDifferential"} -> "CartesianDifferential1D"
    [] OTHER -> "CartesianDifferential2D"

DifferentialClasses ==
  {"CartesianDifferential1D", "RadialDifferential", "CartesianDifferential2D",
   "PolarDifferential", "MyCartesianDifferential2D"}
\* cls.integral_cls of a differential class
integral_cls(cls) ==
  CASE cls = "CartesianDifferential1D" -> "Cartesian1DVector"
    [] cls = "RadialDifferential" -> "RadialVector"
    [] cls = "PolarDifferential" -> "PolarVector"
    [] OTHER -> "Cartesian2DVector"
\* the classes declared with AdditionMixin among their bases
AdditionClasses ==
  {"CartesianDifferential1D", "CartesianDifferential2D", "MyCartesianDifferential2D"}

\* =========================================================================
\* Instances: [cls, comps], comps a function from the field names to Quantities.

Range(f) == {f[i] : i \in DOMAIN f}

\* cls(**mapping): every field given, no other keyword
CanNew(cls, mapping) == DOMAIN mapping = Range(fields(cls))
New(cls, mapping) == [cls |-> cls, comps |-> mapping]

\* dataclass_values(obj): the components in declared order
dataclass_values(obj) ==
  [i \in 1..Len(fields(obj.cls)) |-> obj.comps[fields(obj.cls)[i]]]

\* dataclasses.replace(obj, **changes): a new instance of obj's class
CanReplace(obj, changes) == DOMAIN changes \subseteq DOMAIN obj.comps
replace(obj, changes) ==
  [cls |-> obj.cls,
   comps |-> [k \in DOMAIN obj.comps |->
                IF k \in DOMAIN changes THEN changes[k] ELSE obj.comps[k]]]

\* obj.shapes, in declared order
shapes(obj) == [i \in 1..Len(fields(obj.cls)) |-> dataclass_values(obj)[i].shape]
\* obj.shape is defined iff the component shapes broadcast
HasShape(obj) == Broadcastable(shapes(obj))
shape(obj) == broadcast_shapes(shapes(obj))
size(obj) == Prod(shape(obj))

\* full_shaped(obj): every component broadcast to obj.shape
full_shaped(obj) ==
  replace(obj, [k \in DOMAIN obj.comps |-> broadcast_to(obj.comps[k], shape(obj))])

\* =========================================================================
\* State.

VARIABLES
  heap,   \* the instances constructed so far, oldest first
  res,    \* the last call: its operation, operands, arguments and outcome
  classes,              \* the classes defined so far
  DIFFERENTIAL_CLASSES  \* the module-level set of _base_dif.py

vars == <<heap, res, classes, DIFFERENTIAL_CLASSES>>

NoQ == [shape |-> <<>>, data |-> <<RatInt(0)>>, unit |-> Unit(0, 0, 0, 1)]
\* a call of op on heap[recv], before its outcome is known
Call(op, recv) ==
  [op |-> op, recv |-> recv, other |-> 0, shape |-> <<>>, index |-> 0,
   q |-> NoQ, cls |-> "", keys |-> "", extra |-> <<>>, jit |-> FALSE,
   units |-> <<>>, value |-> NoQ,
   status |-> "ok", out |-> 0, warned |-> FALSE]

\* faulty variant of Return: the result overwrites the receiver in place
ReturnMut(call, obj) ==
  /\ heap' = [heap EXCEPT ![call.recv] = obj]
  /\ res' = [call EXCEPT !.out = call.recv]
  /\ UNCHANGED <<classes, DIFFERENTIAL_CLASSES>>
\* the call returns a newly built instance
Return(call, obj) ==
  /\ heap' = Append(heap, obj)
  /\ res' = [call EXCEPT !.out = Len(heap) + 1]
  /\ UNCHANGED <<classes, DIFFERENTIAL_CLASSES>>
\* the call returns an instance that exists already
ReturnSame(call, ref) ==
  /\ heap' = heap
  /\ res' = [call EXCEPT !.out = ref]
  /\ UNCHANGED <<classes, DIFFERENTIAL_CLASSES>>
\* the call raises
Raise(call, err) ==
  /\ heap' = heap
  /\ res' = [call EXCEPT !.status = err]
  /\ UNCHANGED <<classes, DIFFERENTIAL_CLASSES>>

Top == Len(heap)
Self == heap[Top]
\* A failure is raised synchronously to the caller and nothing catches it:
\* the run makes no call after one.
CanCall == Top < MaxObjs /\ res.status = "ok"

\* =========================================================================
\* Class definition and DIFFERENTIAL_CLASSES.

\* the abstract classes of _base.py, _base_vec.py, _base_dif.py, _dn/base.py
AbstractClasses ==
  {"AbstractVectorBase", "AbstractVector", "AbstractVectorDifferential",
   "AbstractNDVector", "AbstractNDVectorDifferential"}
\* the concrete N-D classes: one stacked array, q or d_q
NDClasses == {"CartesianNDVector", "CartesianDifferentialND"}
\* the class a class statement names as its base
Parent(cls) ==
  CASE cls = "AbstractVectorBase" -> ""
    [] cls \in {"AbstractVector", "AbstractVectorDifferential"} -> "AbstractVectorBase"
    [] cls = "AbstractNDVector" -> "AbstractVector"
    [] cls = "AbstractNDVectorDifferential" -> "AbstractVectorDifferential"
    [] cls = "CartesianNDVector" -> "AbstractNDVector"
    [] cls = "CartesianDifferentialND" -> "AbstractNDVectorDifferential"
    [] Base(cls) /= "" -> Base(cls)
    [] cls \in DifferentialClasses -> "AbstractVectorDifferential"
    [] OTHER -> "AbstractVector"
RECURSIVE Inherits(_, _)
\* cls is anc or is derived from it, directly or through other classes
Inherits(cls, anc) ==
  IF cls = anc THEN TRUE
  ELSE IF Parent(cls) = "" THEN FALSE ELSE Inherits(Parent(cls), anc)

\* faulty variant of init_subclass: the set is rebound to the new class
init_subclassMut(cls) == {cls}
\* AbstractVectorDifferential.__init_subclass__(cls)
init_subclass(cls) == DIFFERENTIAL_CLASSES \cup {cls}

\* the class statement `class cls(Parent(cls))`: Python runs the
\* __init_subclass__ the new class inherits, if it inherits one
DefineClass(cls) ==
  /\ res.status = "ok"
  /\ cls \notin classes
  /\ Parent(cls) \in classes
  /\ classes' = classes \cup {cls}
  /\ DIFFERENTIAL_CLASSES' =
       IF Inherits(Parent(cls), "AbstractVectorDifferential")
       THEN init_subclass(cls)
       ELSE DIFFERENTIAL_CLASSES
  /\ heap' = heap
  /\ res' = [Call("class", 0) EXCEPT !.cls = cls]

\* the classes the import of the package defines
ImportedClasses == AbstractClasses \cup NDClasses \cup (Classes \ ClientClasses)
\* the classes cs have been defined, each registered at its definition
Defined(cs) ==
  /\ classes = cs
  /\ DIFFERENTIAL_CLASSES =
       {c \in cs : Inherits(c, "AbstractVectorDifferential")} \ {"AbstractVectorDifferential"}

\* =========================================================================
\* AbstractVectorBase: the array operations.

\* v[index], index an integer
GetItem(i) ==
  /\ CanCall
  /\ LET call == [Call("getitem", Top) EXCEPT !.index = i]
     IN  IF ~HasShape(Self) THEN Raise(call, "ShapeError")
         ELSE LET full == full_shaped(Self)
              IN  IF \E k \in DOMAIN full.comps : ~CanArrIndex(full.comps[k], i)
                  THEN Raise(call, "IndexError")
                  ELSE Return(call, replace(full,
                         [k \in DOMAIN full.comps |-> ArrIndex(full.comps[k], i)]))

\* v.mT
MatrixTranspose ==
  /\ CanCall
  /\ LET call == Call("mT", Top)
     IN  IF \E k \in DOMAIN Self.comps : ~CanArrMT(Self.comps[k])
         THEN Raise(call, "ShapeError")
         ELSE Return(call, replace(Self,
                [k \in DOMAIN Self.comps |-> ArrMT(Self.comps[k])]))

\* v.T
Transpose ==
  /\ CanCall
  /\ Return(Call("T", Top),
            replace(Self, [k \in DOMAIN Self.comps |-> ArrT(Self.comps[k])]))

\* v.flatten()
Flatten ==
  /\ CanCall
  /\ Return(Call("flatten", Top),
            replace(Self, [k \in DOMAIN Self.comps |-> ArrFlatten(Self.comps[k])]))

\* faulty variant of Reshape: the components are reshaped as stored
ReshapeMut(target) ==
  /\ CanCall
  /\ LET call == [Call("reshape", Top) EXCEPT !.shape = target]
     IN  IF \E k \in DOMAIN Self.comps : ~CanArrReshape(Self.comps[k], target)
         THEN Raise(call, "ShapeError")
         ELSE Return(call, replace(Self,
                [k \in DOMAIN Self.comps |-> ArrReshape(Self.comps[k], target)]))
\* v.reshape(*target)
Reshape(target) ==
  /\ CanCall
  /\ LET call == [Call("reshape", Top) EXCEPT !.shape = target]
     IN  IF ~HasShape(Self) THEN Raise(call, "ShapeError")
         ELSE LET full == full_shaped(Self)
              IN  IF \E k \in DOMAIN full.comps : ~CanArrReshape(full.comps[k], target)
                  THEN Raise(call, "ShapeError")
                  ELSE Return(call, replace(Self,
                         [k \in DOMAIN full.comps |-> ArrReshape(full.comps[k], target)]))

\* faulty variant of FirstUnits: the last unit of a physical type wins
RECURSIVE FirstUnitsMut(_, _)
FirstUnitsMut(vs, units_) ==
  IF vs = <<>> THEN units_
  ELSE LET pt == physical_type(Head(vs).unit)
       IN  FirstUnitsMut(Tail(vs),
             [p \in DOMAIN units_ \cup {pt} |->
                IF p = pt THEN Head(vs).unit ELSE units_[p]])
RECURSIVE FirstUnits(_, _)
\* the dict units_ after the scan of the values vs: physical type -> unit
FirstUnits(vs, units_) ==
  IF vs = <<>> THEN units_
  ELSE LET pt == physical_type(Head(vs).unit)
       IN  FirstUnits(Tail(vs),
             IF pt \in DOMAIN units_ THEN units_
             ELSE [p \in DOMAIN units_ \cup {pt} |->
                     IF p = pt THEN Head(vs).unit ELSE units_[p]])
EmptyDict == [p \in {} |-> u_m]
\* v.to_units(ToUnitsOptions.consistent)
ToUnitsConsistent ==
  /\ CanCall
  /\ LET units_ == FirstUnits(dataclass_values(Self), EmptyDict)
     IN  Return(Call("to_units_consistent", Top),
                replace(Self, [k \in DOMAIN Self.comps |->
                  to_units_q(Self.comps[k], units_[physical_type(Self.comps[k].unit)])]))

\* -d, d a differential
Neg ==
  /\ CanCall
  /\ Self.cls \in DifferentialClasses
  /\ Return(Call("neg", Top),
            replace(Self, [k \in DOMAIN Self.comps |-> ArrNeg(Self.comps[k])]))

\* =========================================================================
\* AbstractVectorDifferential and AdditionMixin: arithmetic.

\* isinstance(obj, cls)
isinstance(obj, cls) == issubclass(obj.cls, cls)

\* faulty variant of IsCartesianOperand: tests against self's own class
IsCartesianOperandMut(self, other) == isinstance(other, self.cls)
\* the operand check of __add__ and __sub__
IsCartesianOperand(self, other) == isinstance(other, cartesian_cls(self.cls))

\* self + other
Add(o) ==
  /\ CanCall
  /\ Self.cls \in AdditionClasses
  /\ LET call == [Call("add", Top) EXCEPT !.other = o]
         other == heap[o]
     IN  IF ~IsCartesianOperand(Self, other) THEN Raise(call, "TypeError")
         ELSE IF ~(DOMAIN Self.comps \subseteq DOMAIN other.comps)
              THEN Raise(call, "AttributeError")
         ELSE IF \E k \in DOMAIN Self.comps : ~CanConvert(other.comps[k], Self.comps[k].unit)
              THEN Raise(call, "UnitConversionError")
         ELSE IF \E k \in DOMAIN Self.comps : ~CanArrBinary(Self.comps[k], other.comps[k])
              THEN Raise(call, "ShapeError")
         ELSE Return(call, replace(Self,
                [k \in DOMAIN Self.comps |-> ArrAdd(Self.comps[k], other.comps[k])]))

\* self - other
Sub(o) ==
  /\ CanCall
  /\ Self.cls \in AdditionClasses
  /\ LET call == [Call("sub", Top) EXCEPT !.other = o]
         other == heap[o]
     IN  IF ~IsCartesianOperand(Self, other) THEN Raise(call, "TypeError")
         ELSE IF ~(DOMAIN Self.comps \subseteq DOMAIN other.comps)
              THEN Raise(call, "AttributeError")
         ELSE IF \E k \in DOMAIN Self.comps : ~CanConvert(other.comps[k], Self.comps[k].unit)
              THEN Raise(call, "UnitConversionError")
         ELSE IF \E k \in DOMAIN Self.comps : ~CanArrBinary(Self.comps[k], other.comps[k])
              THEN Raise(call, "ShapeError")
         ELSE Return(call, replace(Self,
                [k \in DOMAIN Self.comps |-> ArrSub(Self.comps[k], other.comps[k])]))

\* faulty variant of StripPrefix: k[1:]
StripPrefixMut(k) == SubSeq(k, 2, Len(k))
\* k[2:], k a component name
StripPrefix(k) == SubSeq(k, 3, Len(k))

\* the dict {key(i): value(i) for i in items}: a later item replaces an
\* earlier one of the same key; items is a sequence of <<key, value>>
RECURSIVE dict(_)
dict(items) ==
  IF items = <<>> THEN [k \in {} |-> NoQ]
  ELSE LET n == Len(items)
           front == dict(SubSeq(items, 1, n - 1))
       IN  [k \in DOMAIN front \cup {items[n][1]} |->
              IF k = items[n][1] THEN items[n][2] ELSE front[k]]

\* ---- to_units(mapping).  A mapping is a sequence of <<key, unit>> items in
\* iteration order; a key is a PhysicalType object or the name of one.
KeyName(name) == [kind |-> "str", name |-> name, pt |-> <<0, 0, 0>>]
KeyType(pt) == [kind |-> "pt", name |-> "", pt |-> pt]
\* u.get_physical_type(k)
get_physical_type(k) ==
  IF k.kind = "pt" THEN k.pt
  ELSE CASE k.name = "length" -> <<1, 0, 0>>
         [] k.name = "angle" -> <<0, 1, 0>>
         [] k.name = "time" -> <<0, 0, 1>>
         [] k.name = "speed" -> <<1, 0, -1>>
         [] k.name = "angular speed" -> <<0, 1, -1>>
\* faulty variant of NormalisedUnits: the name of a dimension is not looked up
NormalisedUnitsMut(units) ==
  dict([i \in 1..Len(units) |-> <<units[i][1].pt, units[i][2]>>])
\* units_ = {u.get_physical_type(k): v for k, v in units.items()}
NormalisedUnits(units) ==
  dict([i \in 1..Len(units) |-> <<get_physical_type(units[i][1]), units[i][2]>>])
\* the outcome of v.to_units(units_[v.unit.physical_type])
ConvertStatus(v, units_) ==
  IF physical_type(v.unit) \notin DOMAIN units_ THEN "KeyError"
  ELSE IF ~CanConvert(v, units_[physical_type(v.unit)]) THEN "UnitConversionError"
  ELSE "ok"
\* heap[o].to_units(units): the components are converted in declared order,
\* all of them before the result is built
ToUnitsMapping(o, units) ==
  /\ CanCall
  /\ LET self == heap[o]
         units_ == NormalisedUnits(units)
         vs == dataclass_values(self)
         errs == {i \in 1..Len(vs) : ConvertStatus(vs[i], units_) /= "ok"}
         call == [Call("to_units_mapping", o) EXCEPT !.units = units]
     IN  IF errs /= {}
         THEN Raise(call, ConvertStatus(vs[CHOOSE i \in errs : \A j \in errs : i <= j], units_))
         ELSE Return(call, replace(self, [k \in DOMAIN self.comps |->
                to_units_q(self.comps[k], units_[physical_type(self.comps[k].unit)])]))

\* cls.constructor(mapping)
ConstructFromMapping(call, cls, mapping) ==
  IF CanNew(cls, mapping) THEN Return(call, New(cls, mapping))
  ELSE Raise(call, "TypeError")

\* d * q, d a differential and q a Quantity
Mul(q) ==
  /\ CanCall
  /\ Self.cls \in DifferentialClasses
  /\ LET call == [Call("mul", Top) EXCEPT !.q = q]
         fs == fields(Self.cls)
     IN  IF \E k \in DOMAIN Self.comps : ~CanArrBinary(Self.comps[k], q)
         THEN Raise(call, "ShapeError")
         ELSE ConstructFromMapping(call, integral_cls(Self.cls),
                dict([i \in 1..Len(fs) |->
                        <<StripPrefix(fs[i]), ArrMul(Self.comps[fs[i]], q)>>]))

\* =========================================================================
\* Constructors.

\* faulty variant of TrailingMismatch: a longer trailing axis is accepted
TrailingMismatchMut(cls, obj) == obj.shape[ndim(obj)] < Len(fields(cls))
\* obj.shape[-1] != len(fields(cls))
TrailingMismatch(cls, obj) == obj.shape[ndim(obj)] /= Len(fields(cls))

\* faulty variant of StackedComps: the names are taken in reverse order
StackedCompsMut(cls, obj) ==
  dict([i \in 1..Len(fields(cls)) |->
          <<fields(cls)[Len(fields(cls)) + 1 - i], ArrTakeLast(obj, i - 1)>>])
\* {f.name: obj[..., i] for i, f in enumerate(fields(cls))}
StackedComps(cls, obj) ==
  dict([i \in 1..Len(fields(cls)) |-> <<fields(cls)[i], ArrTakeLast(obj, i - 1)>>])

\* cls.constructor(obj), obj a Quantity array
ConstructorQuantity(cls, obj) ==
  /\ CanCall
  /\ LET call == [Call("constructor_q", 0) EXCEPT !.cls = cls, !.q = obj]
     IN  IF ndim(obj) = 0 THEN Raise(call, "IndexError")
         ELSE IF TrailingMismatch(cls, obj) THEN Raise(call, "ShapeError")
         ELSE ConstructFromMapping(call, cls, StackedComps(cls, obj))

\* the mapping {k_1: a[..., 0], ..., k_n: a[..., n-1]}, k the fields of class keys
SplitMapping(keys, a) ==
  dict([i \in 1..Len(fields(keys)) |-> <<fields(keys)[i], ArrTakeLast(a, i - 1)>>])

\* cls.constructor(mapping), the mapping given by keys and a
ConstructorMapping(cls, keys, a) ==
  /\ CanCall
  /\ ndim(a) >= 1 /\ a.shape[ndim(a)] = Len(fields(keys))
  /\ ConstructFromMapping([Call("constructor_map", 0) EXCEPT !.cls = cls, !.keys = keys, !.q = a],
                          cls, SplitMapping(keys, a))

\* cls(c_1=a[..., 0], ..., c_n=a[..., n-1])
DirectConstruct(cls, a) ==
  /\ CanCall
  /\ ndim(a) >= 1 /\ a.shape[ndim(a)] = Len(fields(cls))
  /\ Return([Call("direct", 0) EXCEPT !.cls = cls, !.q = a],
            New(cls, SplitMapping(cls, a)))

\* faulty variant of IsExactly: any instance of cls is returned as it is
IsExactlyMut(obj, cls) == isinstance(obj, cls)
\* type(obj) is cls
IsExactly(obj, cls) == obj.cls = cls

\* cls.constructor(obj), obj the instance heap[o]
ConstructorVec(cls, o) ==
  /\ CanCall
  /\ LET call == [Call("constructor_vec", o) EXCEPT !.cls = cls]
         obj == heap[o]
     IN  IF ~isinstance(obj, cls) THEN Raise(call, "TypeError")
         ELSE IF IsExactly(obj, cls) THEN ReturnSame(call, o)
         ELSE IF CanNew(cls, obj.comps) THEN Return(call, New(cls, obj.comps))
         ELSE Raise(call, "TypeError")

\* =========================================================================
\* AbstractVectorDifferential.represent_as

\* An extra positional argument: None, or an integer.
ExtraNone == [kind |-> "None", val |-> 0]
ExtraInt(n) == [kind |-> "int", val |-> n]
\* bool(x)
Truthy(x) == x.kind = "int" /\ x.val /= 0
\* jax.jit passes an integer to the traced function as a tracer
Traced(x) == x.kind = "int"
\* any(args)
any(args) == \E i \in 1..Len(args) : Truthy(args[i])

\* _transform.represent_as(current, target, position): the no-op to the
\* same class and the one-dimensional rules, d_r = d_x and back
Transformable(current, target) ==
  IF target = current.cls THEN TRUE
  ELSE {current.cls, target} = {"CartesianDifferential1D", "RadialDifferential"}
transform(current, target, position) ==
  IF target = current.cls THEN current
  ELSE New(target, [k \in Range(fields(target)) |-> current.comps[fields(current.cls)[1]]])

\* d.represent_as(target, position, *extra); jit: whether jax.jit traces the
\* call (it does unless jax_disable_jit is set)
RepresentAs(target, pos, extra, jit) ==
  /\ CanCall
  /\ Self.cls \in DifferentialClasses
  /\ heap[pos].cls \notin DifferentialClasses
  /\ Transformable(Self, target)
  /\ LET call == [Call("represent_as", Top) EXCEPT
                    !.cls = target, !.other = pos, !.extra = extra, !.jit = jit]
     IN  IF jit /\ \E i \in 1..Len(extra) : Traced(extra[i])
         THEN Raise(call, "TracerBoolConversionError")
         ELSE Return([call EXCEPT !.warned = any(extra)],
                     transform(Self, target, heap[pos]))

\* =========================================================================
\* Inputs.

\* the shapes of rank <= 2 with axes of length 1..MaxAxis
Shapes ==
  {<<>>} \cup {<<a>> : a \in 1..MaxAxis} \cup {<<a, b>> : a \in 1..MaxAxis, b \in 1..MaxAxis}
\* reshape targets: of rank 1 and 2
Targets == (Shapes \ {<<>>}) \cup {<<MaxAxis * MaxAxis>>}

\* a two-component instance with components of shapes s1 and s2
Vec2(cls, s1, u1, s2, u2) ==
  New(cls, [k \in Range(fields(cls)) |->
              IF k = fields(cls)[1] THEN Arange(s1, 1, u1) ELSE Arange(s2, 5, u2)])

InitRes == Call("init", 0)

\* ---- the array operations on a position and on a differential
InitArr ==
  /\ \/ \E s1 \in Shapes, s2 \in Shapes :
          /\ Broadcastable(<<s1, s2>>)
          /\ heap = <<Vec2("Cartesian2DVector", s1, u_m, s2, u_km)>>
     \/ \E s \in Shapes : heap = <<Vec2("PolarDifferential", s, u_km_s, s, u_deg_s)>>
  /\ res = InitRes
  /\ Defined(ImportedClasses \cup {"MyCartesianDifferential2D"})

NextArr ==
  \/ \E i \in 0..(MaxAxis - 1) : GetItem(i)
  \/ MatrixTranspose
  \/ Transpose
  \/ Flatten
  \/ \E t \in Targets : Reshape(t)
  \/ ToUnitsConsistent
  \/ Neg

SpecArr == InitArr /\ [][NextArr]_vars

\* ---- arithmetic on differentials: heap = <<w, d>>
\* the shapes of the arithmetic operands
AlgShapes == {<<>>, <<MaxAxis>>, <<MaxAxis + 1>>}
Speeds == {u_m_s, u_km_s}
OtherSpeed(u) == IF u = u_m_s THEN u_km_s ELSE u_m_s
\* a differential whose components have shape s, the first in unit u
Differential(cls, s, u) ==
  IF Len(fields(cls)) = 1
  THEN New(cls, [k \in Range(fields(cls)) |-> Arange(s, 1, u)])
  ELSE Vec2(cls, s, u, s, IF cls = "PolarDifferential" THEN u_deg_s ELSE OtherSpeed(u))
\* the Quantities a differential is multiplied by
Multipliers ==
  {Arange(<<>>, 2, u_s), Arange(<<MaxAxis>>, 2, u_s), Arange(<<MaxAxis + 1>>, 1, u_km)}
OtherClasses ==
  {"CartesianDifferential2D", "MyCartesianDifferential2D", "PolarDifferential",
   "CartesianDifferential1D"}

InitAlg ==
  /\ \E c1 \in OtherClasses, c2 \in DifferentialClasses,
        s1 \in AlgShapes, s2 \in AlgShapes, u1 \in Speeds, u2 \in Speeds :
       heap = <<Differential(c1, s1, u1), Differential(c2, s2, u2)>>
  /\ res = InitRes
  /\ Defined(ImportedClasses \cup {"MyCartesianDifferential2D"})

NextAlg ==
  \/ \E o \in 1..Top : Add(o)
  \/ \E o \in 1..Top : Sub(o)
  \/ \E q \in Multipliers : Mul(q)
  \/ Neg
  \/ ToUnitsConsistent

SpecAlg == InitAlg /\ [][NextAlg]_vars

\* ---- construction and represent_as: heap = <<position, instance>>
MaxExtra == 1    \* extra positional arguments of represent_as
ConsClasses ==
  {"Cartesian2DVector", "RadialVector", "RadialDifferential",
   "CartesianDifferential2D", "MyCartesianDifferential2D"}
\* the classes whose component names key the mappings: one per set of names
KeyClasses == {"Cartesian2DVector", "RadialVector", "CartesianDifferential2D"}
\* stacked arrays for cls: the trailing axis enumerates the components;
\* speeds for a differential, lengths for a position
StackedArrays(cls) ==
  {Arange(s, 1, IF cls \in DifferentialClasses THEN u_km_s ELSE u_m) : s \in Shapes}
ExtraValues == {ExtraNone, ExtraInt(0), ExtraInt(1)}
RECURSIVE SeqsUpTo(_, _)
\* the sequences over S of length <= n
SeqsUpTo(S, n) ==
  IF n = 0 THEN {<<>>}
  ELSE SeqsUpTo(S, n - 1)
       \cup {Append(e, x) : e \in {e \in SeqsUpTo(S, n - 1) : Len(e) = n - 1}, x \in S}

InitCons ==
  /\ \E c \in DifferentialClasses, s \in {<<>>, <<MaxAxis>>} :
       heap = <<Vec2("Cartesian2DVector", <<>>, u_m, <<>>, u_km), Differential(c, s, u_m_s)>>
  /\ res = InitRes
  /\ Defined(ImportedClasses \cup {"MyCartesianDifferential2D"})

NextCons ==
  \/ \E cls \in ConsClasses : \E a \in StackedArrays(cls) : ConstructorQuantity(cls, a)
  \/ \E cls \in ConsClasses, keys \in KeyClasses : \E a \in StackedArrays(cls) :
       ConstructorMapping(cls, keys, a)
  \/ \E cls \in ConsClasses : \E a \in StackedArrays(cls) : DirectConstruct(cls, a)
  \/ \E cls \in ConsClasses, o \in 1..Top : ConstructorVec(cls, o)
  \/ \E target \in DifferentialClasses, pos \in 1..Top,
        extra \in SeqsUpTo(ExtraValues, MaxExtra), jit \in BOOLEAN :
       RepresentAs(target, pos, extra, jit)

SpecCons == InitCons /\ [][NextCons]_vars

\* =========================================================================
\* N-D vectors (_dn/base.py): one stacked array, the feature axis last.

\* the outcome of an array computation: a status and, when "ok", an array
Ok(q) == [status |-> "ok", q |-> q]
Err(status) == [status |-> status, q |-> NoQ]

\* (*range(ndim - 2), ndim - 2, ndim - 3)
MTAxes(n) ==
  [i \in 1..n |-> IF i <= n - 2 THEN i - 1 ELSE IF i = n - 1 THEN n - 2 ELSE n - 3]
\* [*range(ndim)[1::-1], -1]
TAxes(n) == Append(IF n = 0 THEN <<>> ELSE IF n = 1 THEN <<0>> ELSE <<1, 0>>, -1)
\* lax.transpose(q, axes): the axes must be exactly 0..ndim-1 in some order;
\* a negative axis is not counted from the end
lax_transpose(q, axes) ==
  IF IsPermutation(axes, ndim(q)) THEN Ok(transpose(q, axes))
  ELSE Err("PermutationError")
\* q.shape[:-1]
nd_shape(q) == SubSeq(q.shape, 1, ndim(q) - 1)
\* q.shape[-1]
nd_features(q) == q.shape[ndim(q)]
\* q.reshape(*shape)
q_reshape(q, shp) ==
  IF CanArrReshape(q, shp) THEN Ok(ArrReshape(q, shp)) ELSE Err("ShapeError")

\* the array mT builds from the stacked array q
nd_mT(q) ==
  IF ndim(q) < 2 THEN Err("ShapeError") ELSE lax_transpose(q, MTAxes(ndim(q)))
\* the array T builds from q
nd_T(q) == lax_transpose(q, TAxes(ndim(q)))
\* the array flatten builds from q
nd_flatten(q) == q_reshape(q, <<Prod(nd_shape(q)), nd_features(q)>>)
\* faulty variant of nd_reshape: the feature axis is put first
nd_reshapeMut(q, hape) == q_reshape(q, <<nd_features(q)>> \o hape)
\* the array reshape(*hape) builds from q
nd_reshape(q, hape) == q_reshape(q, Append(hape, nd_features(q)))

\* replace(self, q=r.q) once the array computation r is over
NDReplace(call, self, r) ==
  IF r.status /= "ok" THEN Raise(call, r.status)
  ELSE IF ~CanReplace(self, [k \in {n_q} |-> r.q]) THEN Raise(call, "TypeError")
  ELSE Return(call, replace(self, [k \in {n_q} |-> r.q]))

\* AbstractNDVector.mT
NDMatrixTranspose ==
  /\ CanCall
  /\ Self.cls = "CartesianNDVector"
  /\ NDReplace(Call("nd_mT", Top), Self, nd_mT(Self.comps[n_q]))
\* AbstractNDVector.T
NDTranspose ==
  /\ CanCall
  /\ Self.cls = "CartesianNDVector"
  /\ NDReplace(Call("nd_T", Top), Self, nd_T(Self.comps[n_q]))
\* AbstractNDVector.flatten
NDFlatten ==
  /\ CanCall
  /\ Self.cls = "CartesianNDVector"
  /\ NDReplace(Call("nd_flatten", Top), Self, nd_flatten(Self.comps[n_q]))
\* AbstractNDVector.reshape
NDReshape(hape) ==
  /\ CanCall
  /\ Self.cls = "CartesianNDVector"
  /\ NDReplace([Call("nd_reshape", Top) EXCEPT !.shape = hape], Self,
               nd_reshape(Self.comps[n_q], hape))

\* AbstractNDVectorDifferential.mT
NDDifMatrixTranspose ==
  /\ CanCall
  /\ Self.cls = "CartesianDifferentialND"
  /\ NDReplace(Call("nd_mT", Top), Self, nd_mT(Self.comps[n_d_q]))
\* AbstractNDVectorDifferential.T
NDDifTranspose ==
  /\ CanCall
  /\ Self.cls = "CartesianDifferentialND"
  /\ NDReplace(Call("nd_T", Top), Self, nd_T(Self.comps[n_d_q]))
\* AbstractNDVectorDifferential.flatten
NDDifFlatten ==
  /\ CanCall
  /\ Self.cls = "CartesianDifferentialND"
  /\ NDReplace(Call("nd_flatten", Top), Self, nd_flatten(Self.comps[n_d_q]))
\* AbstractNDVectorDifferential.reshape: it reads self.q
NDDifReshape(hape) ==
  /\ CanCall
  /\ Self.cls = "CartesianDifferentialND"
  /\ LET call == [Call("nd_reshape", Top) EXCEPT !.shape = hape]
     IN  IF n_q \notin DOMAIN Self.comps THEN Raise(call, "AttributeError")
         ELSE NDReplace(call, Self, nd_reshape(Self.comps[n_q], hape))

\* ---- the N-D array operations: heap = <<an N-D position or differential>>
MaxRank == 3     \* non-feature axes of a stacked array
\* the shapes of at most n axes, each of length 1..MaxAxis
ShapesUpTo(n) == SeqsUpTo(1..MaxAxis, n)
\* stacked arrays: up to MaxRank non-feature axes and a feature axis
NDArrays(u) ==
  {Arange(Append(s, f), 1, u) : s \in ShapesUpTo(MaxRank), f \in 1..MaxAxis}
NDTargets == ShapesUpTo(2) \cup {<<MaxAxis * MaxAxis>>, <<MaxAxis, MaxAxis * MaxAxis>>}

InitND ==
  /\ \/ \E q \in NDArrays(u_m) : heap = <<New("CartesianNDVector", [k \in {n_q} |-> q])>>
     \/ \E q \in NDArrays(u_km_s) :
          heap = <<New("CartesianDifferentialND", [k \in {n_d_q} |-> q])>>
  /\ res = InitRes
  /\ Defined(ImportedClasses)

NextND ==
  \/ NDMatrixTranspose
  \/ NDTranspose
  \/ NDFlatten
  \/ \E hape \in NDTargets : NDReshape(hape)
  \/ NDDifMatrixTranspose
  \/ NDDifTranspose
  \/ NDDifFlatten
  \/ \E hape \in NDTargets : NDDifReshape(hape)

SpecND == InitND /\ [][NextND]_vars

\* ---- unit conversion by a mapping: heap = <<position, differential>>
MaxItems == 2    \* items of a units mapping
\* the items: keys by name and by object, and units of the key's dimension
UnitItems ==
  {<<KeyName("length"), u_km>>, <<KeyType(<<1, 0, 0>>), u_m>>,
   <<KeyType(<<1, 0, -1>>), u_km_s>>, <<KeyName("angular speed"), u_deg_s>>}

InitUnits ==
  /\ \E s \in AlgShapes, c \in {"CartesianDifferential2D", "PolarDifferential"} :
       heap = <<Vec2("Cartesian2DVector", s, u_m, <<>>, u_km), Differential(c, s, u_m_s)>>
  /\ res = InitRes
  /\ Defined(ImportedClasses)

NextUnits ==
  \/ \E o \in 1..Top, units \in SeqsUpTo(UnitItems, MaxItems) : ToUnitsMapping(o, units)
  \/ ToUnitsConsistent

SpecUnits == InitUnits /\ [][NextUnits]_vars

\* =========================================================================
\* Conversion to Quantity (vector/_d2/compat.py).

\* faulty variant of stack: the new axis is put first
stackMut(vs) ==
  LET n == Len(vs)
      sz == Prod(vs[1].shape)
  IN  [shape |-> <<n>> \o vs[1].shape, unit |-> vs[1].unit,
       data |-> [k \in 1..(n * sz) |->
                   to_units_q(vs[((k - 1) \div sz) + 1], vs[1].unit).data[((k - 1) % sz) + 1]]]
\* xp.stack(vs, axis=-1) of Quantities of one shape: a new trailing axis, in
\* the unit of the first
stack(vs) ==
  LET n == Len(vs)
      sz == Prod(vs[1].shape)
  IN  [shape |-> Append(vs[1].shape, n), unit |-> vs[1].unit,
       data |-> [k \in 1..(n * sz) |->
                   to_units_q(vs[((k - 1) % n) + 1], vs[1].unit).data[((k - 1) \div n) + 1]]]
\* the call returns a Quantity
ReturnValue(call, q) ==
  /\ heap' = heap
  /\ res' = [call EXCEPT !.value = q]
  /\ UNCHANGED <<classes, DIFFERENTIAL_CLASSES>>
\* stack(tuple(dataclass_values(full_shaped(obj))), axis=-1)
StackFullShaped(call, obj) ==
  IF ~HasShape(obj) THEN Raise(call, "ShapeError")
  ELSE IF \E i \in 1..Len(fields(obj.cls)) :
            ~CanConvert(dataclass_values(obj)[i], dataclass_values(obj)[1].unit)
  THEN Raise(call, "UnitConversionError")
  ELSE ReturnValue(call, stack(dataclass_values(full_shaped(obj))))
\* convert(obj, Quantity), obj a CartesianDifferential2D
vec_diff_to_q ==
  /\ res.status = "ok"
  /\ Top >= 1
  /\ isinstance(Self, "CartesianDifferential2D")
  /\ StackFullShaped(Call("vec_diff_to_q", Top), Self)
\* convert(obj, Quantity), obj a 2-D position: through its Cartesian
\* representation, which a Cartesian2DVector is
vec_to_q ==
  /\ res.status = "ok"
  /\ Top >= 1
  /\ Self.cls = "Cartesian2DVector"
  /\ StackFullShaped(Call("vec_to_q", Top), Self)

\* ---- construction from a stacked array and conversion back:
\* heap = <<a position, a 2-D differential whose components broadcast>>
CompatClasses == {"CartesianDifferential2D", "Cartesian2DVector"}

InitCompat ==
  /\ \E s1 \in Shapes, s2 \in Shapes :
       /\ Broadcastable(<<s1, s2>>)
       /\ heap = <<Vec2("Cartesian2DVector", <<>>, u_m, <<>>, u_km),
                   Vec2("CartesianDifferential2D", s1, u_m_s, s2, u_km_s)>>
  /\ res = InitRes
  /\ Defined(ImportedClasses \cup {"MyCartesianDifferential2D"})

NextCompat ==
  \/ \E cls \in CompatClasses : \E a \in StackedArrays(cls) : ConstructorQuantity(cls, a)
  \/ vec_diff_to_q
  \/ vec_to_q

SpecCompat == InitCompat /\ [][NextCompat]_vars

\* ---- class definitions among the operations on instances:
\* heap = <<position, differential>>, the client's classes not yet defined
\* the classes constructed from a stacked array once they are defined
RegClasses == {"Cartesian2DVector", "MyCartesian2DVector", "MyCartesianDifferential2D"}

InitReg ==
  /\ \E c \in {"CartesianDifferential2D", "RadialDifferential"}, s \in {<<>>, <<MaxAxis>>} :
       heap = <<Vec2("Cartesian2DVector", s, u_m, <<>>, u_km), Differential(c, s, u_m_s)>>
  /\ res = InitRes
  /\ Defined(ImportedClasses)

NextReg ==
  \/ \E cls \in ClientClasses : DefineClass(cls)
  \/ \E cls \in RegClasses \cap classes :
       ConstructorQuantity(cls, Arange(<<MaxAxis, 2>>, 1, u_m))
  \/ \E cls \in RegClasses \cap classes, o \in 1..Top : ConstructorVec(cls, o)
  \/ Neg
  \/ \E q \in Multipliers : Mul(q)
  \/ \E o \in 1..Top : Add(o)
  \/ \E o \in 1..Top : Sub(o)
  \/ \E pos \in 1..Top, extra \in SeqsUpTo(ExtraValues, 1) :
       RepresentAs(Self.cls, pos, extra, FALSE)
  \/ ToUnitsConsistent
  \/ \E o \in 1..Top, units \in SeqsUpTo(UnitItems, 1) : ToUnitsMapping(o, units)
  \/ \E t \in {<<1>>, <<MaxAxis>>} : Reshape(t)
  \/ GetItem(0)

SpecReg == InitReg /\ [][NextReg]_vars

\* ---- every operation on instances, from a pair of differentials
Init ==
  /\ \E c \in DifferentialClasses, s1 \in AlgShapes, s2 \in Shapes :
       heap = <<Differential("CartesianDifferential2D", s1, u_m_s),
                Differential(c, s2, u_km_s)>>
  /\ res = InitRes
  /\ Defined(ImportedClasses \cup {"MyCartesianDifferential2D"})

Next == NextArr \/ NextAlg

Spec == Init /\ [][Next]_vars

\* =========================================================================
\* Properties.

Recv == heap[res.recv]
Other == heap[res.other]
Out == heap[res.out]
Succeeded == res.status = "ok" /\ res.out > 0
Failed == res.status /= "ok" /\ res.out = 0
\* the magnitude, in the base unit, of the element of a shown at offset k
\* of its broadcast to shp
Mag(a, shp, k) == RatMul(Elem(a, shp, k), RatInt(a.unit.scale))

\* C1: every instance reachable by flatten, reshape, indexing, T, mT,
\* negation and to_units from an instance whose components broadcast has
\* components that broadcast to one common shape: its shape is defined.
C1_BroadcastInvariant == \A i \in 1..Len(heap) : HasShape(heap[i])

\* C2: an operation returns a result and leaves every existing instance as
\* it was: class, component names, values, units and shapes; also when the
\* call fails.
C2_Immutable ==
  [][/\ Len(heap') >= Len(heap)
     /\ \A i \in 1..Len(heap) : heap'[i] = heap[i]]_vars
\* a call has built a result that differs from its receiver
C2_Witness ==
  /\ Succeeded
  /\ res.op \in {"reshape", "getitem", "neg", "to_units_consistent", "add", "mul"}
  /\ Out /= Recv

\* C3: v.reshape(*target) with prod(target) = v.size is an instance of v's
\* class of shape target; any other target makes reshape fail.
C3_ReshapeShape ==
  (res.op = "reshape" /\ HasShape(Recv)) =>
    IF Prod(res.shape) = size(Recv)
    THEN /\ Succeeded
         /\ Out.cls = Recv.cls
         /\ DOMAIN Out.comps = DOMAIN Recv.comps
         /\ HasShape(Out)
         /\ shape(Out) = res.shape
    ELSE Failed /\ res.status = "ShapeError"
\* a vector whose components differ in shape has been reshaped
C3_Witness ==
  /\ res.op = "reshape"
  /\ Succeeded
  /\ \E k1 \in DOMAIN Recv.comps, k2 \in DOMAIN Recv.comps :
       Recv.comps[k1].shape /= Recv.comps[k2].shape
  /\ shape(Recv) /= res.shape

\* C4: to_units(consistent): every component gets the unit of the first
\* component, in declared order, of its own physical type; that first
\* component keeps unit and value; the others keep their magnitude.
FirstOfType(obj, i) ==
  CHOOSE j \in 1..i :
    /\ physical_type(dataclass_values(obj)[j].unit) = physical_type(dataclass_values(obj)[i].unit)
    /\ \A h \in 1..(j - 1) :
         physical_type(dataclass_values(obj)[h].unit) /= physical_type(dataclass_values(obj)[i].unit)
C4_Consistent ==
  res.op = "to_units_consistent" =>
    /\ Succeeded
    /\ Out.cls = Recv.cls
    /\ \A i \in 1..Len(fields(Recv.cls)) :
         LET old == dataclass_values(Recv)[i]
             new == dataclass_values(Out)[i]
             ref == dataclass_values(Recv)[FirstOfType(Recv, i)]
         IN  /\ new.unit = ref.unit
             /\ new.shape = old.shape
             /\ FirstOfType(Recv, i) = i => new = old
             /\ \A k \in 1..Len(old.data) :
                  RatMul(new.data[k], RatInt(new.unit.scale))
                    = RatMul(old.data[k], RatInt(old.unit.scale))
\* a later component of the same physical type has been converted to a
\* larger unit, and one to a smaller unit
C4_Witness ==
  /\ res.op = "to_units_consistent"
  /\ Succeeded
  /\ \E i \in 2..Len(fields(Recv.cls)) :
       /\ FirstOfType(Recv, i) = 1
       /\ dataclass_values(Recv)[i].unit /= dataclass_values(Recv)[1].unit
       /\ dataclass_values(Recv)[i].unit.scale < dataclass_values(Recv)[1].unit.scale
       /\ dataclass_values(Out)[i].data /= dataclass_values(Recv)[i].data

\* C5: self + other and self - other fail with a type error unless other is
\* an instance of self's Cartesian class; otherwise the result is of self's
\* class and component k is self.k + other.k (self.k - other.k).  d - d is
\* zero and d + d is twice d.
C5_AddSub ==
  res.op \in {"add", "sub"} =>
    IF ~issubclass(Other.cls, cartesian_cls(Recv.cls))
    THEN Failed /\ res.status = "TypeError"
    ELSE /\ res.status /= "TypeError"
         /\ (\A k \in DOMAIN Recv.comps :
               /\ k \in DOMAIN Other.comps
               /\ physical_type(Recv.comps[k].unit) = physical_type(Other.comps[k].unit)
               /\ CanBroadcast2(Recv.comps[k].shape, Other.comps[k].shape))
            => Succeeded
         /\ res.other = res.recv => Succeeded
         /\ Succeeded =>
              /\ Out.cls = Recv.cls
              /\ DOMAIN Out.comps = DOMAIN Recv.comps
              /\ \A k \in DOMAIN Recv.comps :
                   LET a == Recv.comps[k]
                       b == Other.comps[k]
                       r == Out.comps[k]
                       shp == Broadcast2(a.shape, b.shape)
                   IN  /\ r.shape = shp
                       /\ r.unit = a.unit
                       /\ \A i \in 1..Prod(shp) :
                            Mag(r, shp, i) =
                              IF res.op = "add"
                              THEN RatAdd(Mag(a, shp, i), Mag(b, shp, i))
                              ELSE RatSub(Mag(a, shp, i), Mag(b, shp, i))
                       /\ (res.other = res.recv /\ res.op = "sub") =>
                            \A i \in 1..Len(r.data) : r.data[i] = RatInt(0)
                       /\ (res.other = res.recv /\ res.op = "add") =>
                            \A i \in 1..Len(r.data) : r.data[i] = RatMul(RatInt(2), a.data[i])
\* an instance of a subclass of the Cartesian class, in another unit, has
\* been added to or subtracted from a differential
C5_Witness ==
  /\ res.op \in {"add", "sub"}
  /\ Succeeded
  /\ Other.cls /= Recv.cls
  /\ \E k \in DOMAIN Recv.comps : Other.comps[k].unit /= Recv.comps[k].unit

\* C6: d * q is an instance of d.integral_cls with exactly one component per
\* component of d, named by the name of d's component without its "d_",
\* of value (component of d) * q.
C6_Mul ==
  res.op = "mul" =>
    ((\A k \in DOMAIN Recv.comps : CanBroadcast2(Recv.comps[k].shape, res.q.shape)) =>
      /\ Succeeded
      /\ Out.cls = integral_cls(Recv.cls)
      /\ Cardinality(DOMAIN Out.comps) = Cardinality(DOMAIN Recv.comps)
      /\ DOMAIN Out.comps = Range(fields(Out.cls))
      /\ \A k \in DOMAIN Recv.comps :
           /\ k[1] = "d" /\ k[2] = "_"
           /\ Tail(Tail(k)) \in DOMAIN Out.comps
           /\ LET a == Recv.comps[k]
                  r == Out.comps[Tail(Tail(k))]
                  shp == Broadcast2(a.shape, res.q.shape)
              IN  /\ r.shape = shp
                  /\ r.unit.dim = [i \in 1..3 |-> a.unit.dim[i] + res.q.unit.dim[i]]
                  /\ \A i \in 1..Prod(shp) :
                       Mag(r, shp, i) = RatMul(Mag(a, shp, i), Mag(res.q, shp, i))
      /\ Recv.cls = "PolarDifferential" => DOMAIN Out.comps = {n_r, n_phi}
      /\ Recv.cls = "RadialDifferential" => DOMAIN Out.comps = {n_r})
\* a two-component differential has been multiplied by an array of times
C6_Witness ==
  /\ res.op = "mul"
  /\ Succeeded
  /\ Recv.cls = "PolarDifferential"
  /\ res.q.shape /= <<>>
  /\ Out.comps[n_phi].unit = u_deg

\* C7: every call d.represent_as(target, position, *extra) with one or more
\* extra positional arguments emits a warning, does not fail and returns the
\* result of d.represent_as(target, position); without one, no warning.
C7_ExtraArgsWarn ==
  res.op = "represent_as" =>
    IF Len(res.extra) >= 1
    THEN /\ res.warned
         /\ Succeeded
         /\ Out = transform(Recv, res.cls, Other)
    ELSE ~res.warned /\ Succeeded

Slice(a, i) ==
  LET n == a.shape[Len(a.shape)]
      front == SubSeq(a.shape, 1, Len(a.shape) - 1)
  IN  [shape |-> front, unit |-> a.unit,
       data |-> [k \in 1..Prod(front) |-> a.data[(k - 1) * n + i + 1]]]

\* C9: cls.constructor(array) fails with a shape error and builds nothing when
\* the trailing axis is not as long as the number n of components; when it
\* is, component i is array[..., i] and the shape is the array's without its
\* trailing axis.
C9_StackedConstruct ==
  (res.op = "constructor_q" /\ Len(res.q.shape) >= 1) =>
    IF res.q.shape[Len(res.q.shape)] /= Len(fields(res.cls))
    THEN Failed /\ res.status = "ShapeError"
    ELSE /\ Succeeded
         /\ Out.cls = res.cls
         /\ DOMAIN Out.comps = Range(fields(res.cls))
         /\ \A i \in 1..Len(fields(res.cls)) :
              Out.comps[fields(res.cls)[i]] = Slice(res.q, i - 1)
         /\ shape(Out) = SubSeq(res.q.shape, 1, Len(res.q.shape) - 1)
\* a batch of two-component rows has been split into components
C9_Witness ==
  /\ res.op = "constructor_q"
  /\ Succeeded
  /\ Len(fields(res.cls)) = 2
  /\ Len(res.q.shape) = 2
  /\ res.q.shape[1] > 1

\* C10: from a stacked array a with trailing length n, constructor(a),
\* constructor({c_1: a[..., 0], ...}) and cls(c_1=a[..., 0], ...) are
\* instances of cls equal component for component.
C10_SameConstruction ==
  (/\ res.op \in {"constructor_q", "constructor_map", "direct"}
   /\ Len(res.q.shape) >= 1
   /\ res.q.shape[Len(res.q.shape)] = Len(fields(res.cls))
   /\ res.op = "constructor_map" => fields(res.keys) = fields(res.cls))
  => /\ Succeeded
     /\ Out = [cls |-> res.cls,
               comps |-> [k \in Range(fields(res.cls)) |->
                            Slice(res.q, (CHOOSE i \in 1..Len(fields(res.cls)) :
                                            fields(res.cls)[i] = k) - 1)]]
\* a mapping split from a batch of rows has built a two-component instance
C10_Witness ==
  /\ res.op = "constructor_map"
  /\ Succeeded
  /\ Len(fields(res.cls)) = 2
  /\ Len(res.q.shape) = 2
  /\ res.q.shape[1] > 1

\* the last item of the mapping units whose key names the dimension pt
LastItem(units, pt) ==
  CHOOSE i \in 1..Len(units) :
    /\ get_physical_type(units[i][1]) = pt
    /\ \A j \in (i + 1)..Len(units) : get_physical_type(units[j][1]) /= pt

\* C11: to_units(mapping): when the dimension of every component is a key of
\* the mapping, given as an object or by name, each component is converted
\* to the unit mapped to its own dimension, whatever else the mapping holds
\* and whatever the other components are; when the dimension of a component
\* is absent the call fails with a key error and returns no instance.
C11_ToUnitsMapping ==
  res.op = "to_units_mapping" =>
    IF \A k \in DOMAIN Recv.comps :
         \E i \in 1..Len(res.units) :
           get_physical_type(res.units[i][1]) = physical_type(Recv.comps[k].unit)
    THEN /\ Succeeded
         /\ Out.cls = Recv.cls
         /\ DOMAIN Out.comps = DOMAIN Recv.comps
         /\ \A k \in DOMAIN Recv.comps :
              LET old == Recv.comps[k]
                  new == Out.comps[k]
                  unit == res.units[LastItem(res.units, physical_type(old.unit))][2]
              IN  /\ new.unit = unit
                  /\ new.shape = old.shape
                  /\ \A i \in 1..Len(old.data) :
                       RatMul(new.data[i], RatInt(new.unit.scale))
                         = RatMul(old.data[i], RatInt(old.unit.scale))
    ELSE Failed /\ res.status = "KeyError"
\* a mapping keyed by a name and by an object, one of its items for a
\* dimension the receiver does not have, has converted a component
C11_Witness ==
  /\ res.op = "to_units_mapping"
  /\ Succeeded
  /\ \E i \in 1..Len(res.units) : res.units[i][1].kind = "str"
  /\ \E i \in 1..Len(res.units) :
       \A k \in DOMAIN Recv.comps :
         get_physical_type(res.units[i][1]) /= physical_type(Recv.comps[k].unit)
  /\ \E k \in DOMAIN Recv.comps : Out.comps[k].data /= Recv.comps[k].data
\* a mapping without the dimension of the second component has been refused
C11_WitnessMissing ==
  /\ res.op = "to_units_mapping"
  /\ Failed
  /\ Len(res.units) >= 1
  /\ \E i \in 1..Len(res.units) :
       get_physical_type(res.units[i][1]) = physical_type(dataclass_values(Recv)[1].unit)

\* the stacked array of the receiver and of the result of an N-D operation
RecvQ == Recv.comps[fields(Recv.cls)[1]]
OutQ == Out.comps[fields(Out.cls)[1]]
\* the axes 0..n-1 with the axes i and j (from 0) exchanged
Swapped(n, i, j) == [a \in 1..n |-> IF a = i + 1 THEN j ELSE IF a = j + 1 THEN i ELSE a - 1]

\* C12: mT of an N-D position with fewer than two non-feature axes (a shape
\* of length 0 or 1) fails with a shape error and returns no instance.
C12_MatrixTransposeLowRank ==
  (res.op = "nd_mT" /\ Recv.cls = "CartesianNDVector" /\ Len(nd_shape(RecvQ)) < 2) =>
    Failed /\ res.status = "ShapeError"

\* C13: mT of an N-D position v with two or more non-feature axes succeeds
\* and is an instance of v's class whose stacked array is v.q with the last
\* two non-feature axes exchanged, the other axes and the feature axis in
\* place; its shape is v.shape with the last two entries swapped.
C13_MatrixTranspose ==
  (res.op = "nd_mT" /\ Recv.cls = "CartesianNDVector" /\ Len(nd_shape(RecvQ)) >= 2) =>
    LET n == ndim(RecvQ)
    IN  /\ Succeeded
        /\ Out.cls = Recv.cls
        /\ OutQ = transpose(RecvQ, Swapped(n, n - 3, n - 2))
        /\ nd_shape(OutQ) =
             [i \in 1..(n - 1) |->
                nd_shape(RecvQ)[IF i = n - 2 THEN n - 1 ELSE IF i = n - 1 THEN n - 2 ELSE i]]

\* C14: T of an N-D position v with two or more non-feature axes succeeds
\* and is an instance of v's class whose stacked array is v.q with the two
\* leading axes exchanged, the other axes and the feature axis in place.
C14_Transpose ==
  (res.op = "nd_T" /\ Recv.cls = "CartesianNDVector" /\ Len(nd_shape(RecvQ)) >= 2) =>
    LET n == ndim(RecvQ)
    IN  /\ Succeeded
        /\ Out.cls = Recv.cls
        /\ OutQ = transpose(RecvQ, Swapped(n, 0, 1))
        /\ nd_features(OutQ) = nd_features(RecvQ)

\* feature j (from 0) of element e (from 0, in C order) of the N-D array q
Feature(q, e, j) ==
  q.data[Ravel(Append(Unravel(e, nd_shape(q)), j), q.shape) + 1]

\* C15: flatten of an N-D position v has stacked shape (v.size, F);
\* reshape(*target) with prod(target) = v.size has stacked shape
\* (*target, F) and shape target, and fails for any other target; in both
\* the trailing axis still holds the F features of each element.
C15_KeepFeatureAxis ==
  (res.op \in {"nd_flatten", "nd_reshape"} /\ Recv.cls = "CartesianNDVector") =>
    LET F == nd_features(RecvQ)
        sz == Prod(nd_shape(RecvQ))
        target == IF res.op = "nd_flatten" THEN <<sz>> ELSE res.shape
    IN  IF Prod(target) = sz
        THEN /\ Succeeded
             /\ Out.cls = Recv.cls
             /\ OutQ.shape = Append(target, F)
             /\ nd_shape(OutQ) = target
             /\ OutQ.unit = RecvQ.unit
             /\ \A e \in 0..(sz - 1), j \in 0..(F - 1) :
                  Feature(OutQ, e, j) = Feature(RecvQ, e, j)
        ELSE Failed /\ res.status = "ShapeError"
\* a position with three non-feature axes and several features has been
\* reshaped to two axes
C15_Witness ==
  /\ res.op = "nd_reshape"
  /\ Succeeded
  /\ Len(nd_shape(RecvQ)) = 3
  /\ nd_features(RecvQ) >= 2
  /\ Len(res.shape) = 2
  /\ Prod(res.shape) >= 4
\* a position has been flattened to (size, F)
C15_WitnessFlatten ==
  /\ res.op = "nd_flatten"
  /\ Succeeded
  /\ Len(nd_shape(RecvQ)) >= 2
  /\ nd_features(RecvQ) >= 2
  /\ OutQ.shape[1] >= 4

\* what the operation of the last call builds from the stacked array q of
\* an N-D position
PositionResult(q) ==
  CASE res.op = "nd_mT" -> nd_mT(q)
    [] res.op = "nd_T" -> nd_T(q)
    [] res.op = "nd_flatten" -> nd_flatten(q)
    [] res.op = "nd_reshape" -> nd_reshape(q, res.shape)

\* C16: T, mT, flatten and reshape on an N-D differential d succeed exactly
\* when they succeed on an N-D position whose q is d.d_q, and then return an
\* instance of d's class whose d_q is the q of the position's result.
C16_DifferentialMirrors ==
  (res.op \in {"nd_mT", "nd_T", "nd_flatten", "nd_reshape"}
   /\ Recv.cls = "CartesianDifferentialND") =>
    /\ Succeeded <=> PositionResult(RecvQ).status = "ok"
    /\ Succeeded =>
         /\ Out.cls = Recv.cls
         /\ OutQ = PositionResult(RecvQ).q

\* C17: DIFFERENTIAL_CLASSES holds every class defined so far that derives,
\* directly or not, from AbstractVectorDifferential, added when the class is
\* defined; no class ever leaves it, and a step that defines no class (an
\* operation on instances) leaves it as it was.
C17_RegistryAppendOnly ==
  /\ [](\A c \in classes :
          (c /= "AbstractVectorDifferential" /\ Inherits(c, "AbstractVectorDifferential"))
            => c \in DIFFERENTIAL_CLASSES)
  /\ [][/\ DIFFERENTIAL_CLASSES \subseteq DIFFERENTIAL_CLASSES'
        /\ classes' = classes => DIFFERENTIAL_CLASSES' = DIFFERENTIAL_CLASSES
        /\ \A c \in classes' \ classes :
             Inherits(Parent(c), "AbstractVectorDifferential") =>
               c \in DIFFERENTIAL_CLASSES' \ DIFFERENTIAL_CLASSES]_vars
\* after an operation has built an instance, a class derived from a
\* client's own differential class has been defined and is registered,
\* and a client's position class is defined and not registered
C17_Witness ==
  /\ res.op = "class"
  /\ Len(heap) > 2
  /\ "MyOtherDifferential2D" \in DIFFERENTIAL_CLASSES
  /\ "MyCartesian2DVector" \in classes \ DIFFERENTIAL_CLASSES

\* the operation of the last call applied to one component a
Applied(a) ==
  CASE res.op = "getitem" -> ArrIndex(a, res.index)
    [] res.op = "flatten" -> ArrFlatten(a)
    [] res.op = "reshape" -> ArrReshape(a, res.shape)

\* C18: v[index], v.flatten() and v.reshape(*s) broadcast every component
\* of v to v.shape and then apply the operation to each: all components of
\* the result have one shape, and component k is the operation applied to
\* component k of v broadcast to v.shape.
C18_FullShapedFirst ==
  (res.op \in {"getitem", "flatten", "reshape"} /\ Succeeded /\ HasShape(Recv)) =>
    /\ \A k1 \in DOMAIN Out.comps, k2 \in DOMAIN Out.comps :
         Out.comps[k1].shape = Out.comps[k2].shape
    /\ \A k \in DOMAIN Recv.comps :
         Out.comps[k] = Applied(broadcast_to(Recv.comps[k], shape(Recv)))

\* C19: converting CartesianDifferential2D.constructor(a) to a Quantity
\* gives a back, for every stacked array a of trailing length 2; converting
\* a CartesianDifferential2D d whose components broadcast gives an array of
\* shape (*d.shape, 2) whose trailing axis holds the components, each
\* broadcast to d.shape, in declared order.
C19_RoundTrip ==
  (res.op = "vec_diff_to_q" /\ HasShape(Recv)) =>
    /\ res.status = "ok"
    /\ res.value.shape = Append(shape(Recv), 2)
    /\ \A i \in 1..2 :
         LET c == broadcast_to(dataclass_values(Recv)[i], shape(Recv))
         IN  /\ Slice(res.value, i - 1).shape = c.shape
             /\ \A k \in 1..Len(c.data) :
                  RatMul(Slice(res.value, i - 1).data[k], RatInt(res.value.unit.scale))
                    = RatMul(c.data[k], RatInt(c.unit.scale))
    /\ \A a \in StackedArrays(Recv.cls) :
         (/\ ndim(a) >= 1
          /\ a.shape[ndim(a)] = 2
          /\ Recv.comps = StackedComps(Recv.cls, a))
         => res.value = a
\* a differential built from a batch of rows has been converted back
C19_Witness ==
  /\ res.op = "vec_diff_to_q"
  /\ res.status = "ok"
  /\ ndim(res.value) = 2
  /\ res.value.shape[1] > 1
  /\ \E a \in StackedArrays(Recv.cls) :
       /\ ndim(a) = 2
       /\ a.shape[2] = 2
       /\ Recv.comps = StackedComps(Recv.cls, a)
\* a differential whose components differ in shape and unit has been converted
C19_WitnessBroadcast ==
  /\ res.op = "vec_diff_to_q"
  /\ res.status = "ok"
  /\ Recv.comps[n_d_x].shape /= Recv.comps[n_d_y].shape
  /\ Recv.comps[n_d_x].unit /= Recv.comps[n_d_y].unit
  /\ ndim(res.value) = 3

====
